---- MODULE Spec2Model ----
EXTENDS Integers, Sequences, FiniteSets, TLC

\* Model of backup.py (Backuper: constructor, Run, stages, _cleanup, main)
\* and notifier.py (TelegramNotifier).  The environment (config file,
\* mysqldump exit status, disk errors, S3 and Telegram responses) is a
\* record cfg chosen once at start; the program's steps are deterministic
\* given cfg.

\* Bound: maximal length of the configured target list
MaxTargets == 2

\* Target strings, as sequences of characters
TargetNames == { <<"a">>, <<".", "/", "a">>, <<"/", "a">>, <<".", "e">> }

\* Relative paths existing under the mount root
MountPaths == { <<"a">>, <<"e">>, <<".", "e">> }

\* os.path.basename(dump_file), the archive entry name of the dump
DumpBase == <<"d", "u", "m", "p">>

TargetLists == UNION { [1..n -> TargetNames] : n \in 0..MaxTargets }

CfgFields(TempDir, Config, Db, DumpLoc, CredWrite, DumpOut, ArchIO, S3, UpOut, Tg, Token, Delivery, Targets, Fs) ==
    [tempDir : TempDir, config : Config, db : Db, dumpLoc : DumpLoc, credWrite : CredWrite, dumpOut : DumpOut,
     archIO : ArchIO, s3 : S3, upOut : UpOut, tg : Tg, token : Token,
     delivery : Delivery, targets : Targets, fs : Fs]

\* dumpLoc: where os.path.join(self._temp_dir, db_config.dump_filename)
\* points: a file of the temp dir, a path outside it ("../x" or absolute),
\* or the credential file itself (dump_filename = "mysql_auth.cnf")

\* Environments of a whole run, every failure injectable
PipelineCfgs ==
    CfgFields({"ok", "file"}, {"ok", "missing", "invalid"}, BOOLEAN,
              {"inside", "outside", "cred"},
              {"ok", "openfail", "writefail"},
              {"ok", "nonzero", "spawnerr", "openfail"},
              {"ok", "openfail", "writefail"}, BOOLEAN,
              {"ok", "fail", "clientErr"}, BOOLEAN, BOOLEAN, {"ok", "fail"},
              {<< <<"a">> >>}, {{<<"a">>}})

\* Environments varying the target list and the mount contents
ArchiveCfgs ==
    CfgFields({"ok"}, {"ok"}, BOOLEAN, {"inside", "outside"}, {"ok"}, {"ok"}, {"ok", "writefail"}, BOOLEAN,
              {"ok"}, BOOLEAN, BOOLEAN, {"ok", "fail"},
              TargetLists, SUBSET MountPaths)

VARIABLES pc, cfg, ws, outside, hasDump, mysqldumpRan, archive, exc, failedStage,
          err, posts, trace, cleanups, exitCode

vars == <<pc, cfg, ws, outside, hasDump, mysqldumpRan, archive, exc, failedStage,
          err, posts, trace, cleanups, exitCode>>

InitWith(Cfgs) ==
    /\ pc = "start"
    /\ cfg \in Cfgs
    /\ ws = {}
    /\ outside = {}
    /\ hasDump = FALSE
    /\ mysqldumpRan = FALSE
    /\ archive = {}
    /\ exc = "none"
    /\ failedStage = "none"
    /\ err = "none"
    /\ posts = <<>>
    /\ trace = <<>>
    /\ cleanups = 0
    /\ exitCode = -1

Init == InitWith(PipelineCfgs)

InitArchive == InitWith(ArchiveCfgs)

\* Backuper.__init__ / _load_config: missing file -> sys.exit(1);
\* invalid YAML or schema -> uncaught exception, process exits 1
LoadConfig ==
    /\ pc = "start"
    /\ IF cfg.config = "ok"
         THEN /\ pc' = "run"
              /\ UNCHANGED exitCode
         ELSE /\ pc' = "done"
              /\ exitCode' = 1
    /\ UNCHANGED <<outside, cfg, ws, hasDump, mysqldumpRan, archive, exc, failedStage,
                   err, posts, trace, cleanups>>

\* Run: os.makedirs(self._temp_dir, exist_ok=True); when the temp dir path
\* is an existing regular file it raises FileExistsError (an Exception)
RunStart ==
    /\ pc = "run"
    /\ IF cfg.tempDir = "file"
         THEN /\ exc' = "Exception"
              /\ failedStage' = "makedirs"
              /\ err' = "makedirs_error"
              /\ pc' = "except"
         ELSE /\ pc' = "dump"
              /\ UNCHANGED <<exc, failedStage, err>>
    /\ UNCHANGED <<outside, cfg, ws, hasDump, mysqldumpRan, archive, posts, trace,
                   cleanups, exitCode>>

\* Dump with the database.enabled check dropped
DumpIgnoreEnabledAs ==
    /\ pc = "dump"
    /\ trace' = Append(trace, "dump")
    /\ ws' = IF cfg.credWrite = "openfail" THEN ws ELSE ws \cup {"cred"}
    /\ IF cfg.credWrite # "ok"
         THEN /\ exc' = "Exception"
              /\ failedStage' = "dump"
              /\ err' = "cred_write_error"
              /\ pc' = "except"
         ELSE /\ pc' = "dump_run"
              /\ UNCHANGED <<exc, failedStage, err>>
    /\ UNCHANGED <<outside, hasDump, cfg, mysqldumpRan, archive, posts, cleanups, exitCode>>

\* _create_db_dump up to the subprocess: disabled -> return None;
\* otherwise write mysql_auth.cnf (outside the try/finally); a failing
\* open leaves no file, a failing write or close leaves it behind
Dump ==
    /\ pc = "dump"
    /\ trace' = Append(trace, "dump")
    /\ IF ~cfg.db
         THEN /\ hasDump' = FALSE
              /\ pc' = "archive"
              /\ UNCHANGED <<ws, exc, failedStage, err>>
         ELSE /\ ws' = IF cfg.credWrite = "openfail" THEN ws ELSE ws \cup {"cred"}
              /\ IF cfg.credWrite # "ok"
                   THEN /\ exc' = "Exception"
                        /\ failedStage' = "dump"
                        /\ err' = "cred_write_error"
                        /\ pc' = "except"
                   ELSE /\ pc' = "dump_run"
                        /\ UNCHANGED <<exc, failedStage, err>>
              /\ UNCHANGED hasDump
    /\ UNCHANGED <<outside, cfg, mysqldumpRan, archive, posts, cleanups, exitCode>>

\* Files of the temp dir after the dump file has been opened for writing
\* and the finally has removed mysql_auth.cnf
DumpRunWs == IF cfg.dumpOut # "openfail" /\ cfg.dumpLoc = "inside"
               THEN (ws \cup {"dump"}) \ {"cred"}
               ELSE ws \ {"cred"}

\* Files written outside the temp dir by the dump
DumpRunOutside == IF cfg.dumpOut # "openfail" /\ cfg.dumpLoc = "outside"
                    THEN outside \cup {"dump"}
                    ELSE outside

\* DumpRun that logs a mysqldump failure and carries on without exiting
DumpRunContinueAs ==
    /\ pc = "dump_run"
    /\ mysqldumpRan' = (cfg.dumpOut # "openfail")
    /\ ws' = DumpRunWs
    /\ outside' = DumpRunOutside
    /\ hasDump' = (cfg.dumpOut = "ok")
    /\ failedStage' = IF cfg.dumpOut = "ok" THEN failedStage ELSE "dump"
    /\ err' = IF cfg.dumpOut = "ok" THEN err ELSE "dump_error"
    /\ pc' = "archive"
    /\ UNCHANGED <<exc, cfg, archive, posts, trace, cleanups, exitCode>>

\* _create_db_dump try/except/finally: open dump file (may fail, e.g. a
\* missing subdirectory in dump_filename: FileNotFoundError before mysqldump
\* runs), run mysqldump; CalledProcessError -> sys.exit(1); FileNotFoundError
\* for a missing mysqldump propagates; finally removes mysql_auth.cnf (which
\* is the dump itself when dump_filename is "mysql_auth.cnf")
DumpRun ==
    /\ pc = "dump_run"
    /\ mysqldumpRan' = (cfg.dumpOut # "openfail")
    /\ ws' = DumpRunWs
    /\ outside' = DumpRunOutside
    /\ CASE cfg.dumpOut = "ok" ->
              /\ hasDump' = TRUE
              /\ pc' = "archive"
              /\ UNCHANGED <<exc, failedStage, err>>
         [] cfg.dumpOut = "nonzero" ->
              /\ exc' = "SystemExit"
              /\ failedStage' = "dump"
              /\ err' = "dump_nonzero"
              /\ pc' = "finally"
              /\ UNCHANGED hasDump
         [] cfg.dumpOut \in {"spawnerr", "openfail"} ->
              /\ exc' = "Exception"
              /\ failedStage' = "dump"
              /\ err' = IF cfg.dumpOut = "spawnerr" THEN "dump_spawn_error"
                                                    ELSE "dump_open_error"
              /\ pc' = "except"
              /\ UNCHANGED hasDump
    /\ UNCHANGED <<cfg, archive, posts, trace, cleanups, exitCode>>

\* str.lstrip(chars): drop every leading character belonging to chars
RECURSIVE LStrip(_, _)
LStrip(s, chars) ==
    IF Len(s) > 0 /\ s[1] \in chars THEN LStrip(Tail(s), chars) ELSE s

\* os.path.join(self._mount_root, target.lstrip("./")), relative to the root
ResolveTarget(t) == LStrip(t, {".", "/"})

\* tar.add(..., arcname=target): TarFile.gettarinfo drops leading "/"
ArcName(t) == LStrip(t, {"/"})

\* _create_archive: tar.gz created in the temp dir (an I/O error while
\* opening leaves no file, one while writing leaves it); dump added under
\* its base name; each target added under its configured name when its
\* resolved path exists, otherwise only a warning is printed; tar.add of
\* a dump path that no longer exists raises FileNotFoundError
Archive ==
    /\ pc = "archive"
    /\ trace' = Append(trace, "archive")
    /\ ws' = IF cfg.archIO = "openfail" THEN ws ELSE ws \cup {"archive"}
    /\ IF cfg.archIO # "ok" \/ (hasDump /\ cfg.dumpLoc = "cred")
         THEN /\ exc' = "Exception"
              /\ failedStage' = "archive"
              /\ err' = IF cfg.archIO # "ok" THEN "archive_io_error"
                                             ELSE "dump_not_found"
              /\ pc' = "except"
              /\ UNCHANGED archive
         ELSE /\ archive' = (IF hasDump THEN {DumpBase} ELSE {})
                            \cup { ArcName(cfg.targets[i]) :
                                   i \in { j \in DOMAIN cfg.targets :
                                           ResolveTarget(cfg.targets[j]) \in cfg.fs } }
              /\ pc' = "upload"
              /\ UNCHANGED <<exc, failedStage, err>>
    /\ UNCHANGED <<outside, cfg, hasDump, mysqldumpRan, posts, cleanups, exitCode>>

\* Upload that logs an upload_file error and returns normally
UploadNoExitAs ==
    /\ pc = "upload"
    /\ trace' = Append(trace, "upload")
    /\ IF cfg.s3 /\ cfg.upOut = "clientErr"
         THEN /\ exc' = "Exception"
              /\ failedStage' = "upload"
              /\ err' = "client_error"
              /\ pc' = "except"
         ELSE /\ pc' = "notify"
              /\ UNCHANGED <<exc, failedStage, err>>
    /\ UNCHANGED <<outside, cfg, ws, hasDump, mysqldumpRan, archive, posts, cleanups,
                   exitCode>>

\* _upload_to_s3: disabled -> skipped; session.client is outside the try
\* (its exception reaches Run's except); upload_file error -> sys.exit(1)
Upload ==
    /\ pc = "upload"
    /\ trace' = Append(trace, "upload")
    /\ IF ~cfg.s3
         THEN /\ pc' = "notify"
              /\ UNCHANGED <<exc, failedStage, err>>
         ELSE CASE cfg.upOut = "ok" ->
                     /\ pc' = "notify"
                     /\ UNCHANGED <<exc, failedStage, err>>
                [] cfg.upOut = "fail" ->
                     /\ exc' = "SystemExit"
                     /\ failedStage' = "upload"
                     /\ err' = "upload_error"
                     /\ pc' = "finally"
                [] cfg.upOut = "clientErr" ->
                     /\ exc' = "Exception"
                     /\ failedStage' = "upload"
                     /\ err' = "client_error"
                     /\ pc' = "except"
    /\ UNCHANGED <<outside, cfg, ws, hasDump, mysqldumpRan, archive, posts, cleanups,
                   exitCode>>

\* _should_send checking only the token
ShouldSendTokenOnlyAs == cfg.token

\* TelegramNotifier._should_send
ShouldSend == cfg.tg /\ cfg.token

\* TelegramNotifier._send: one requests.post; delivered unless the
\* transport fails or raise_for_status raises
Send(kind, text) == [kind |-> kind, text |-> text, delivered |-> cfg.delivery = "ok"]

\* _send letting a delivery failure propagate
SendRaisesAs == cfg.delivery # "ok"

\* TelegramNotifier._send: whether an exception escapes (it catches all)
SendRaises == FALSE

\* send_success message: header, archive name, size
SuccessText == <<"Backup Successful!", "archive_name", "size_mb">>

\* send_error message: header and the error text
ErrorText(e) == <<"Backup Failed!", e>>

\* Run: self._notifier.send_success(archive_file.name, archive_file.size_mb)
NotifySuccess ==
    /\ pc = "notify"
    /\ trace' = Append(trace, "notify")
    /\ IF ShouldSend
         THEN /\ posts' = Append(posts, Send("success", SuccessText))
              /\ IF SendRaises
                   THEN /\ exc' = "Exception"
                        /\ failedStage' = "notify"
                        /\ err' = "notify_error"
                        /\ pc' = "except"
                   ELSE /\ pc' = "finally"
                        /\ UNCHANGED <<exc, failedStage, err>>
         ELSE /\ pc' = "finally"
              /\ UNCHANGED <<posts, exc, failedStage, err>>
    /\ UNCHANGED <<outside, cfg, ws, hasDump, mysqldumpRan, archive, cleanups, exitCode>>

\* except branch exiting directly, with the cleanup outside any finally
ExceptExitAs ==
    /\ pc = "except"
    /\ trace' = Append(trace, "notify")
    /\ IF ShouldSend
         THEN posts' = Append(posts, Send("error", ErrorText(err)))
         ELSE UNCHANGED posts
    /\ exc' = "SystemExit"
    /\ pc' = "done"
    /\ exitCode' = 1
    /\ UNCHANGED <<outside, cfg, ws, hasDump, mysqldumpRan, archive, failedStage, err,
                   cleanups>>

\* Run: except Exception -> print, send_error(str(e)), sys.exit(1)
Except ==
    /\ pc = "except"
    /\ trace' = Append(trace, "notify")
    /\ IF ShouldSend
         THEN /\ posts' = Append(posts, Send("error", ErrorText(err)))
              /\ exc' = IF SendRaises THEN "Exception" ELSE "SystemExit"
         ELSE /\ exc' = "SystemExit"
              /\ UNCHANGED posts
    /\ pc' = "finally"
    /\ UNCHANGED <<outside, cfg, ws, hasDump, mysqldumpRan, archive, failedStage, err,
                   cleanups, exitCode>>

\* _cleanup forgetting the credential file
CleanupKeepCredAs(w) == w \cap {"cred"}

\* _cleanup: remove every file of the temp dir
Cleanup(w) == {}

\* Run's finally: self._cleanup(); then the process ends: main prints
\* "Done." and exits 0, or the pending SystemExit / exception exits 1.
\* When the temp dir path is a regular file, os.listdir raises
\* NotADirectoryError, which replaces the pending exception
Finally ==
    /\ pc = "finally"
    /\ trace' = Append(trace, "cleanup")
    /\ ws' = Cleanup(ws)
    /\ cleanups' = cleanups + 1
    /\ exc' = IF cfg.tempDir = "file" THEN "Exception" ELSE exc
    /\ exitCode' = IF exc' = "none" THEN 0 ELSE 1
    /\ pc' = "done"
    /\ UNCHANGED <<outside, cfg, hasDump, mysqldumpRan, archive, failedStage, err,
                   posts>>

Next == LoadConfig \/ RunStart \/ Dump \/ DumpRun \/ Archive \/ Upload
        \/ NotifySuccess \/ Except \/ Finally

Spec == Init /\ [][Next]_vars

SpecArchive == InitArchive /\ [][Next]_vars

\* ---------------------------------------------------------------------
\* Properties

Range(s) == { s[i] : i \in DOMAIN s }

CountOf(s, x) == Cardinality({ i \in DOMAIN s : s[i] = x })

RunStarted == cfg.config = "ok"

\* Every stage that is attempted succeeds
AllOk == /\ cfg.tempDir = "ok"
         /\ (~cfg.db \/ (cfg.credWrite = "ok" /\ cfg.dumpOut = "ok"))
         /\ cfg.archIO = "ok" /\ ~(cfg.db /\ cfg.dumpLoc = "cred")
         /\ (~cfg.s3 \/ cfg.upOut = "ok")

StageIdx == [dump |-> 1, archive |-> 2, upload |-> 3, notify |-> 4, cleanup |-> 5]

\* Resolution described by the spec: leading "/" and "./" markers stripped
RECURSIVE SpecResolve(_)
SpecResolve(t) ==
    IF Len(t) >= 1 /\ t[1] = "/" THEN SpecResolve(Tail(t))
    ELSE IF Len(t) >= 2 /\ t[1] = "." /\ t[2] = "/"
         THEN SpecResolve(SubSeq(t, 3, Len(t)))
         ELSE t

\* C1: once settings resolve, every finished run executed the cleanup
\* step exactly once, and it was the last step, on every path.
C1_CleanupOnceLast ==
    pc = "done" /\ RunStarted =>
        /\ cleanups = 1
        /\ CountOf(trace, "cleanup") = 1
        /\ trace[Len(trace)] = "cleanup"

C1_Witness == pc = "done" /\ failedStage = "dump" /\ cfg.dumpOut = "nonzero"

\* C2: after every run, whichever stage failed, the temp workspace holds no
\* credential, dump or archive file.
C2_WorkspaceEmpty == pc = "done" /\ RunStarted => ws = {}

C2_Witness == pc = "done" /\ failedStage = "upload" /\ cfg.db /\ cfg.upOut = "fail"

\* C3: when Dump, Archive or Upload fails, with notifications enabled and a
\* bot token present, exactly one failure message carrying the stage's error
\* text is sent and no success message.
C3_FailureNotified ==
    pc = "done" /\ failedStage \in {"dump", "archive", "upload"} /\ ShouldSend =>
        /\ Len(posts) = 1
        /\ posts[1].kind = "error"
        /\ err \in Range(posts[1].text)

\* C4: the exit status is 0 exactly when settings resolve and every enabled
\* stage succeeds, and 1 on any fatal condition.
C4_ExitStatus ==
    pc = "done" =>
        /\ exitCode \in {0, 1}
        /\ (exitCode = 0 <=> RunStarted /\ AllOk)

C4_Witness == pc = "done" /\ cfg.s3 /\ cfg.upOut = "fail" /\ cfg.archIO = "ok"
              /\ cfg.db /\ cfg.dumpOut = "ok" /\ cfg.credWrite = "ok"

\* C5: once the Dump Stage has returned or exited, by any route (mysqldump
\* succeeding or failing, or an earlier error), the credential file is gone.
C5_CredentialRemoved ==
    "dump" \in Range(trace) /\ pc \notin {"dump_run"} => "cred" \notin ws

\* C6: stages run in the order Dump, Archive, Upload, Notify, Cleanup; after
\* a failed Dump neither Archive nor Upload is attempted.
C6_StageOrder ==
    /\ \A i, j \in DOMAIN trace : i < j => StageIdx[trace[i]] < StageIdx[trace[j]]
    /\ failedStage = "dump" => "archive" \notin Range(trace) /\ "upload" \notin Range(trace)

C6_Witness == pc = "done" /\ failedStage = "dump"

\* C7: every target whose path under the mount root (leading "/" and "./"
\* stripped) exists is archived under its configured name (as a tar member
\* name, without a leading "/") and every other
\* target is omitted; the dump appears under its base name; the run exits 0.
C7_TargetsArchived ==
    pc = "done" /\ RunStarted /\ AllOk =>
        /\ exitCode = 0
        /\ \A t \in Range(cfg.targets) : ArcName(t) \in archive <=> SpecResolve(t) \in cfg.fs
        /\ DumpBase \in archive <=> cfg.db

\* C8: a notification delivery failure never changes the exit status and
\* never replaces the success or failure message of the run.
C8_NotifyFailureSwallowed ==
    pc = "done" /\ RunStarted /\ (\E i \in DOMAIN posts : ~posts[i].delivered) =>
        /\ exitCode = IF AllOk THEN 0 ELSE 1
        /\ \A i \in DOMAIN posts : posts[i].kind = IF AllOk THEN "success" ELSE "error"

C8_Witness == pc = "done" /\ AllOk /\ Len(posts) = 1 /\ ~posts[1].delivered

\* C9: with notifications disabled or no bot token no message is posted on
\* any path; disabled notifications and all stages succeeding exit 0.
C9_NoMessaging ==
    /\ (~cfg.tg \/ ~cfg.token) => posts = <<>>
    /\ pc = "done" /\ ~cfg.tg /\ RunStarted /\ AllOk => exitCode = 0

C9_Witness == pc = "done" /\ ~cfg.tg /\ cfg.token /\ RunStarted /\ AllOk

\* C10: with database.enabled false the Dump Stage writes no credential or
\* dump file, fails with no error, and the pipeline goes on to Archive.
C10_DbDisabled ==
    ~cfg.db /\ "dump" \in Range(trace) =>
        /\ "cred" \notin ws
        /\ "dump" \notin ws
        /\ failedStage # "dump"
        /\ ~hasDump
        /\ ~mysqldumpRan
        /\ (pc = "archive" \/ "archive" \in Range(trace))

C10_Witness == ~cfg.db /\ pc = "upload"

====
